---- MODULE Spec2Model ----
(***************************************************************************)
(* btc-tracker: the ledger-data aggregation layer.                         *)
(*                                                                         *)
(* The model follows one HTTP request at a time through its handler in     *)
(* routes/wallets.js or routes/sync.js, from one suspension point (await)  *)
(* to the next.  Handlers share no mutable state besides the address       *)
(* table, so the requests of a run are handled one after the other; the    *)
(* upstream explorer (its chain tip, its answers, its failures) moves      *)
(* freely while a request is suspended.  A handler is an operation of its  *)
(* own: the dispatch of a URL to a handler belongs to express.             *)
(* SpecWrites adds the statements other requests run on the table while   *)
(* a POST or a DELETE is suspended.  SpecUnits calls the unit conversions  *)
(* of services/blockchainService.js with the arithmetic of doubles.        *)
(***************************************************************************)
EXTENDS Integers, Sequences, FiniteSets, TLC

(***************************************************************************)
(* Bounds of the model.                                                    *)
(***************************************************************************)
MaxTip == 1          \* the explorer's best height ranges over 0..MaxTip
MaxTxs == 2          \* longest transaction feed the explorer returns

(***************************************************************************)
(* Program constants.                                                      *)
(***************************************************************************)
AddrLimitMax == 50
MultiLimitMax == 100
DefaultLimit == 50
SatoshisPerBTC == 100000000

(***************************************************************************)
(* Values.                                                                 *)
(***************************************************************************)
NoHeight == -1       \* block_height: null (transaction not in a block)

Users == {"alice", "bob"}
Labels == {"Genesis"}

Genesis == "1A1zP1eP5QGefi2DMPTfTL5SLmv7DivfNa"
P2sh == "3J98t1WpEZ73CNmQviecrnyiWrnqRhWNLy"
ValidAddrs == {Genesis, P2sh}
BadAddrs == {"notanaddress"}
NoAddr == ""         \* req.body.address missing

\* What the four patterns of isValidBitcoinAddress look at: the prefix, the
\* character class of the rest and its length.
AddrShape ==
    (Genesis :> [prefix |-> "1", body |-> "base58", len |-> 33]) @@
    (P2sh :> [prefix |-> "3", body |-> "base58", len |-> 33]) @@
    ("notanaddress" :> [prefix |-> "n", body |-> "base58", len |-> 11]) @@
    (NoAddr :> [prefix |-> "", body |-> "", len |-> 0])

isValidBitcoinAddress(address) ==
    LET s == AddrShape[address] IN
    \/ s.prefix \in {"1", "3"} /\ s.body = "base58" /\ s.len \in 25..34
    \/ s.prefix = "bc1" /\ s.body \in {"lower", "digits"} /\ s.len \in 39..59
    \/ s.prefix \in {"2", "m", "n"} /\ s.body = "base58" /\ s.len \in 25..34
    \/ s.prefix = "tb1" /\ s.body \in {"lower", "digits"} /\ s.len \in 39..59

Max(a, b) == IF a >= b THEN a ELSE b
Min(a, b) == IF a <= b THEN a ELSE b

\* The limit of a query string: absent, a number in digits, or other text.
NaN == -2            \* parseInt of a text that starts with no digit
NoQuery == "undefined"
LimitQueries == {NoQuery, "1", "200", "abc"}

\* parseInt(text); Math.min coerces the same texts to the same numbers.
parseInt(text) ==
    CASE text = "1" -> 1
      [] text = "200" -> 200
      [] OTHER -> NaN

\* const { limit = 50 } = req.query; parseInt(limit)
LimitOf(query) == IF query = NoQuery THEN DefaultLimit ELSE parseInt(query)

\* Math.min(a, b): NaN if either is NaN.
MathMin(a, b) == IF a = NaN \/ b = NaN THEN NaN ELSE Min(a, b)

\* The integer an array index is read as: NaN counts as 0.
ToInteger(n) == IF n = NaN THEN 0 ELSE n

Heights == 0..MaxTip
BlockHeights == Heights \cup {NoHeight}

\* The transactions of the explorer, amounts in satoshis: a coinbase input
\* has no prev_out.
NoPrevOut == [isNull |-> TRUE]
Outs == {<<[addr |-> Genesis, value |-> 5000]>>,
         <<[addr |-> Genesis, value |-> 5000], [addr |-> P2sh, value |-> 700]>>}
Inputs == {<<[prev_out |-> NoPrevOut]>>,
           <<[prev_out |-> [addr |-> P2sh, value |-> 6000]]>>}
DetailedTxs == [block_height : BlockHeights, fee : {0, 300}, out : Outs, inputs : Inputs]

\* The transaction a feed lists at a height: the coinbase of block 0, and a
\* payment of 6000 from P2sh (5000 to Genesis, 700 back, fee 300) elsewhere.
RawTx(h) ==
    IF h = 0
    THEN [block_height |-> h, fee |-> 0,
          out |-> <<[addr |-> Genesis, value |-> 5000]>>,
          inputs |-> <<[prev_out |-> NoPrevOut]>>]
    ELSE [block_height |-> h, fee |-> 300,
          out |-> <<[addr |-> Genesis, value |-> 5000], [addr |-> P2sh, value |-> 700]>>,
          inputs |-> <<[prev_out |-> [addr |-> P2sh, value |-> 6000]]>>]

\* A raw transaction of the explorer's feed.
RawTxs == {RawTx(h) : h \in BlockHeights}

RECURSIVE SeqsUpTo(_, _)
SeqsUpTo(S, n) ==
    IF n = 0 THEN {<<>>}
    ELSE LET shorter == SeqsUpTo(S, n - 1) IN
         shorter \cup {Append(s, x) : s \in {t \in shorter : Len(t) = n - 1}, x \in S}

\* The txs member of an explorer answer: absent, or a list.
Feeds == {[present |-> FALSE, txs |-> <<>>]} \cup
         {[present |-> TRUE, txs |-> f] : f \in SeqsUpTo(RawTxs, MaxTxs)}

\* A balance record of the explorer, in satoshis (TLC integers are 32 bits wide).
Snapshots == {
    [final_balance |-> 0, total_received |-> 0, total_sent |-> 0, n_tx |-> 0],
    [final_balance |-> 150000000, total_received |-> 150000000, total_sent |-> 0, n_tx |-> 1]}

\* A JavaScript number, kept as the fraction it denotes.
Number(n) == [num |-> n, den |-> 1]

\* satoshis / 100000000
satoshisToBTC(satoshis) == [num |-> satoshis, den |-> SatoshisPerBTC]

(***************************************************************************)
(* JavaScript numbers beyond 32 bits.  An integer amount is kept as        *)
(* [hi, lo], the value hi * 10^8 + lo with lo < 10^8; inside the           *)
(* arithmetic an integer is the sequence of its hexadecimal digits, lowest *)
(* first.  A Number is an IEEE 754 double [sig, exp], the value            *)
(* sig * 2^exp with sig below 2^53 (2^52 or above unless the value is 0).  *)
(* The amounts here are far from the exponent's limits, so exp is not     *)
(* bounded.                                                                *)
(***************************************************************************)
\* The binary digits of a Number's significand.
Precision == 53

Wide(hi, lo) == [hi |-> hi, lo |-> lo]

RECURSIVE Digits(_)
Digits(n) == IF n = 0 THEN <<>> ELSE <<n % 16>> \o Digits(n \div 16)

RECURSIVE Norm(_)
Norm(a) == IF a # <<>> /\ a[Len(a)] = 0 THEN Norm(SubSeq(a, 1, Len(a) - 1)) ELSE a

RECURSIVE ToInt(_)
ToInt(a) == IF a = <<>> THEN 0 ELSE Head(a) + 16 * ToInt(Tail(a))

RECURSIVE Plus(_, _, _)
Plus(a, b, carry) ==
    IF a = <<>> /\ b = <<>> THEN Digits(carry)
    ELSE LET x == IF a = <<>> THEN 0 ELSE Head(a)
             y == IF b = <<>> THEN 0 ELSE Head(b)
             t == x + y + carry
         IN  <<t % 16>> \o Plus(IF a = <<>> THEN a ELSE Tail(a),
                                IF b = <<>> THEN b ELSE Tail(b), t \div 16)

\* a * k + carry, for k up to 10^8
RECURSIVE Times(_, _, _)
Times(a, k, carry) ==
    IF a = <<>> THEN Digits(carry)
    ELSE LET t == Head(a) * k + carry
         IN  <<t % 16>> \o Times(Tail(a), k, t \div 16)

\* quotient and remainder of a by k, for k up to 10^8
RECURSIVE DivRem(_, _)
DivRem(a, k) ==
    IF a = <<>> THEN [q |-> <<>>, r |-> 0]
    ELSE LET high == DivRem(Tail(a), k)
             t == high.r * 16 + Head(a)
         IN  [q |-> <<t \div k>> \o high.q, r |-> t % k]

Hex(w) == Norm(Plus(Times(Digits(w.hi), SatoshisPerBTC, 0), Digits(w.lo), 0))
Unhex(a) == LET d == DivRem(a, SatoshisPerBTC) IN Wide(ToInt(Norm(d.q)), d.r)

BitLength(a) ==
    IF a = <<>> THEN 0
    ELSE LET top == a[Len(a)]
         IN  4 * (Len(a) - 1) + (IF top >= 8 THEN 4 ELSE IF top >= 4 THEN 3
                                 ELSE IF top >= 2 THEN 2 ELSE 1)

\* a * 2^t
ShiftLeft(a, t) ==
    IF a = <<>> THEN a
    ELSE [i \in 1..(t \div 4) |-> 0] \o Norm(Times(a, 2 ^ (t % 4), 0))

\* floor(a / 2^t), and whether anything was dropped
ShiftRight(a, t) ==
    LET whole == Min(t \div 4, Len(a))
        d == DivRem(SubSeq(a, whole + 1, Len(a)), 2 ^ (t % 4))
    IN  [q |-> Norm(d.q),
         inexact |-> d.r # 0 \/ \E i \in 1..whole : a[i] # 0]

IsOdd(a) == a # <<>> /\ Head(a) % 2 = 1

Zero == [sig |-> Wide(0, 0), exp |-> 0]

\* The double nearest to (a + f) * 2^e, ties to even, where f is a fraction
\* strictly between 0 and 1 when inexact, and 0 otherwise.
RoundToDouble(a, inexact, e) ==
    LET len == BitLength(a) IN
    IF a = <<>> THEN Zero
    ELSE IF len <= Precision
    THEN [sig |-> Unhex(ShiftLeft(a, Precision - len)), exp |-> e - (Precision - len)]
    ELSE LET t == len - Precision
             s == ShiftRight(a, t - 1)
             q == ShiftRight(s.q, 1).q
             half == IsOdd(s.q)
             up == half /\ (s.inexact \/ inexact \/ IsOdd(q))
             sig == IF up THEN Norm(Plus(q, <<1>>, 0)) ELSE q
         IN  IF BitLength(sig) > Precision
             THEN [sig |-> Unhex(ShiftRight(sig, 1).q), exp |-> e + t + 1]
             ELSE [sig |-> Unhex(sig), exp |-> e + t]

\* a / k of two Numbers holding the integers a and k: the quotient is
\* taken with enough binary places for the rounding to see it exactly.
Divide(a, k) ==
    LET places == Max(0, Precision + 2 + BitLength(Digits(k)) - BitLength(a))
        d == DivRem(ShiftLeft(a, places), k)
    IN  RoundToDouble(Norm(d.q), d.r # 0, 0 - places)

\* x * k of the Number x and the Number holding the integer k
Multiply(x, k) == RoundToDouble(Norm(Times(Hex(x.sig), k, 0)), FALSE, x.exp)

\* Math.round(x): floor(x + 0.5), for x >= 0
MathRound(x) ==
    IF x.exp >= 0 THEN ShiftLeft(Hex(x.sig), x.exp)
    ELSE ShiftRight(Norm(Plus(Hex(x.sig), ShiftLeft(<<1>>, (0 - x.exp) - 1), 0)), 0 - x.exp).q

\* Math.floor(x), for x >= 0
MathFloor(x) ==
    IF x.exp >= 0 THEN ShiftLeft(Hex(x.sig), x.exp)
    ELSE ShiftRight(Hex(x.sig), 0 - x.exp).q

\* The Number a division leaves: the double nearest to the quotient.
Float64(q) == Divide(Hex(q.num), q.den)

\* A conversion that cuts the product off instead of rounding it.
btcToSatoshisTruncating(btc) == Unhex(MathFloor(Multiply(btc, SatoshisPerBTC)))

\* Math.round(btc * 100000000)
btcToSatoshis(btc) == Unhex(MathRound(Multiply(btc, SatoshisPerBTC)))

\* JavaScript's reading of a height in a condition and in arithmetic.
Truthy(h) == h # NoHeight /\ h # 0
ToNumber(h) == IF h = NoHeight THEN 0 ELSE h

\* A calculateConfirmations without its catch: the failure reaches the caller.
calculateConfirmationsRethrows(latest, blockHeight) ==
    IF latest.ok
    THEN [threw |-> FALSE, value |-> Max(0, latest.height - ToNumber(blockHeight) + 1)]
    ELSE [threw |-> TRUE, value |-> 0]

\* calculateConfirmations, given how its getLatestBlock call ended.
calculateConfirmations(latest, blockHeight) ==
    IF latest.ok
    THEN [threw |-> FALSE, value |-> Max(0, latest.height - ToNumber(blockHeight) + 1)]
    ELSE [threw |-> FALSE, value |-> 0]

\* A formatter that asks for the confirmations of every transaction.
NeedsConfirmationsAlways(tx) == TRUE

\* tx.block_height ? await calculateConfirmations(tx.block_height) : 0
NeedsConfirmations(tx) == Truthy(tx.block_height)

VARIABLES
    repo,       \* the addresses table: records [user_id, address, label]
    tip,        \* the explorer's best block height
    pc,         \* where the request's handler is suspended
    req,        \* the request being handled
    rows,       \* the handler's rows of the addresses table
    feed,       \* the handler's transactions of the explorer's answer
    conf,       \* the handler's confirmations, one per transaction of feed
    http,       \* the GETs this request has sent to the explorer
    resp        \* the response sent

vars == <<repo, tip, pc, req, rows, feed, conf, http, resp>>

NoReq == [kind |-> "none"]
NoResp == [status |-> 0]
NoFeed == [present |-> FALSE, txs |-> <<>>]

Init ==
    /\ repo = {}
    /\ tip \in Heights
    /\ pc = "idle"
    /\ req = NoReq
    /\ rows = <<>>
    /\ feed = NoFeed
    /\ conf = <<>>
    /\ http = {}
    /\ resp = NoResp

(***************************************************************************)
(* The addresses table (database/db.js).                                   *)
(***************************************************************************)
Range(s) == {s[i] : i \in 1..Len(s)}

\* The orders in which a SELECT may list a set of rows (created_at has a
\* resolution of one second, so rows may tie).
Orderings(S) ==
    {s \in [1..Cardinality(S) -> S] : \A x \in S : \E i \in 1..Cardinality(S) : s[i] = x}

getAddressByUserAndAddress(userId, address) ==
    {r \in repo : r.user_id = userId /\ r.address = address}

getUserAddresses(userId) == Orderings({r \in repo : r.user_id = userId})

\* A table without its UNIQUE constraint.
UniqueViolationNever(userId, address) == FALSE

\* UNIQUE(user_id, address): the INSERT of a pair the table holds is refused.
UniqueViolation(userId, address) ==
    \E r \in repo : r.user_id = userId /\ r.address = address

\* The table after the INSERT (which is refused on a UniqueViolation).
addAddress(userId, address, label) ==
    repo \cup {[user_id |-> userId, address |-> address, label |-> label]}

\* A DELETE that matches the address alone.
removeAddressOfAnyUser(userId, address) ==
    {r \in repo : r.address # address}

removeAddress(userId, address) ==
    {r \in repo : ~(r.user_id = userId /\ r.address = address)}

(***************************************************************************)
(* The explorer client (services/blockchainService.js).                    *)
(***************************************************************************)
\* An argument that may be missing: !addresses || addresses.length === 0
Arg(list) == [given |-> TRUE, list |-> list]
NoArg == [given |-> FALSE, list |-> <<>>]
IsEmptyArg(addresses) == ~addresses.given \/ Len(addresses.list) = 0

\* A getMultipleBalances that asks the explorer whatever the list.
getMultipleBalancesNeverLocal(addresses) == FALSE

\* getMultipleBalances answers {} by itself for no addresses.
getMultipleBalancesLocal(addresses) == IsEmptyArg(addresses)

\* A getMultipleAddressInfo that asks the explorer whatever the list.
getMultipleAddressInfoNeverLocal(addresses) == FALSE

\* getMultipleAddressInfo answers { addresses: [], txs: [] } by itself.
getMultipleAddressInfoLocal(addresses) == IsEmptyArg(addresses)

EmptyMultiInfo == [present |-> TRUE, txs |-> <<>>]
EmptyBalances == {}

\* The limit each query sends to the explorer.
getAddressInfoLimit(limit) == MathMin(limit, AddrLimitMax)
getMultipleAddressInfoLimit(limit) == MathMin(limit, MultiLimitMax)

\* One GET sent to the explorer; tx is the transaction it was sent for
\* (0: for none), limit the limit it carries, height the height /latestblock
\* answered, balances the balance records /balance or /rawaddr answered,
\* error the message of the failure axios reported for it.
Get(endpoint, tx, limit) ==
    [endpoint |-> endpoint, tx |-> tx, limit |-> limit, state |-> "pending",
     height |-> 0, balances |-> {}, active |-> <<>>, error |-> ""]

\* A GET about addresses: active is the list it names (joined by '|').
GetFor(endpoint, addresses, limit) ==
    [Get(endpoint, 0, limit) EXCEPT !.active = addresses]

Pending(endpoint) == {c \in http : c.endpoint = endpoint /\ c.state = "pending"}
Settled(c, state, height) ==
    (http \ {c}) \cup {[c EXCEPT !.state = state, !.height = height]}
SettledBalances(c, balances) ==
    (http \ {c}) \cup {[c EXCEPT !.state = "ok", !.balances = balances]}
Sent(endpoint) == {c \in http : c.endpoint = endpoint}

\* error.message of a rejected axios.get: the timeout has passed, the
\* explorer answered another status than 2xx, the connection failed.
UpstreamErrors == {"timeout of 10000ms exceeded",
                   "Request failed with status code 429",
                   "connect ECONNREFUSED"}
Rejected(c, message) ==
    (http \ {c}) \cup {[c EXCEPT !.state = "failed", !.error = message]}

\* What /balance may answer for a list of addresses: a record for some.
BalanceAnswers(list) ==
    {{[address |-> a, data |-> f[a]] : a \in DOMAIN f} :
        f \in UNION {[S -> Snapshots] : S \in SUBSET Range(list)}}
Known(balances) == {e.address : e \in balances}

(***************************************************************************)
(* Formatting shared by the handlers.                                      *)
(***************************************************************************)
NullBalance == [isNull |-> TRUE]

ConvertBalance(b) ==
    [final_balance |-> satoshisToBTC(b.final_balance),
     total_received |-> satoshisToBTC(b.total_received),
     total_sent |-> satoshisToBTC(b.total_sent),
     n_tx |-> b.n_tx]

\* balances[address] ? { ... } : null
BalanceOf(balances, address) ==
    IF address \in Known(balances)
    THEN ConvertBalance((CHOOSE e \in balances : e.address = address).data)
    ELSE NullBalance

\* A formatter that lists only the addresses the explorer knows.
FormatBalancesKnownOnly(addresses, balances) ==
    LET IsKnown(r) == r.address \in Known(balances)
        known == SelectSeq(addresses, IsKnown)
    IN  [i \in 1..Len(known) |->
            [address |-> known[i].address,
             label |-> known[i].label,
             balance |-> BalanceOf(balances, known[i].address)]]

\* addresses.map(addressRecord => ({ address, label, balance }))
FormatBalances(addresses, balances) ==
    [i \in 1..Len(addresses) |->
        [address |-> addresses[i].address,
         label |-> addresses[i].label,
         balance |-> BalanceOf(balances, addresses[i].address)]]

AddressStrings(addresses) == [i \in 1..Len(addresses) |-> addresses[i].address]

\* tx.fee ? satoshisToBTC(tx.fee) : 0
FormatFee(fee) == IF fee # 0 THEN satoshisToBTC(fee) ELSE Number(0)

\* input.prev_out ? { addr, value: satoshisToBTC(value) } : null
FormatInputs(inputs) ==
    [k \in 1..Len(inputs) |->
        [prev_out |-> IF inputs[k].prev_out # NoPrevOut
                      THEN [addr |-> inputs[k].prev_out.addr,
                            value |-> satoshisToBTC(inputs[k].prev_out.value)]
                      ELSE NoPrevOut]]

\* tx.out.map(output => ({ addr, value: satoshisToBTC(value) }))
FormatOut(out) ==
    [k \in 1..Len(out) |-> [addr |-> out[k].addr, value |-> satoshisToBTC(out[k].value)]]

\* A transaction as the wallets handlers send it, and as the sync handlers do.
FormatWithConfirmations(txs, cs) ==
    [i \in 1..Len(txs) |->
        [block_height |-> txs[i].block_height,
         fee |-> FormatFee(txs[i].fee),
         confirmations |-> cs[i],
         inputs |-> FormatInputs(txs[i].inputs),
         out |-> FormatOut(txs[i].out)]]
FormatPlain(txs) ==
    [i \in 1..Len(txs) |->
        [block_height |-> txs[i].block_height,
         fee |-> FormatFee(txs[i].fee),
         inputs |-> FormatInputs(txs[i].inputs),
         out |-> FormatOut(txs[i].out)]]

\* txs.slice(0, n)
Slice(txs, n) == SubSeq(txs, 1, Min(Len(txs), Max(ToInteger(n), 0)))

Failure(status) == [status |-> status, success |-> FALSE]

(***************************************************************************)
(* Steps shared by the handlers.                                           *)
(***************************************************************************)
Limits == {LimitOf(query) : query \in LimitQueries}

Idle == pc = "idle"

\* A handler starts: its locals are fresh.
Begin(r, at) ==
    /\ Idle
    /\ req' = r
    /\ pc' = at
    /\ rows' = <<>>
    /\ feed' = NoFeed
    /\ conf' = <<>>
    /\ http' = {}
    /\ resp' = NoResp

\* res.json / res.status(..).json
Respond(response) ==
    /\ pc' = "done"
    /\ resp' = response

\* The response is out and the handler has returned: its locals are gone.
RequestEnds ==
    /\ pc = "done"
    /\ pc' = "idle"
    /\ req' = NoReq
    /\ rows' = <<>>
    /\ feed' = NoFeed
    /\ conf' = <<>>
    /\ http' = {}
    /\ resp' = NoResp
    /\ UNCHANGED <<repo, tip>>

\* The explorer's best block advances.
TipAdvance ==
    /\ tip < MaxTip
    /\ tip' = tip + 1
    /\ UNCHANGED <<repo, pc, req, rows, feed, conf, http, resp>>

\* A query of the addresses table fails: the handler's catch answers 500.
DbFail ==
    /\ pc \in {"db", "insert", "delete"}
    /\ Respond(Failure(500))
    /\ UNCHANGED <<repo, tip, req, rows, feed, conf, http>>

(***************************************************************************)
(* routes/wallets.js                                                       *)
(***************************************************************************)
Request(kind, user, address, label, limit) ==
    [kind |-> kind, user |-> user, address |-> address, label |-> label, limit |-> limit]

Handling(kind, at) == pc = at /\ req.kind = kind

\* The requests the handlers of routes/ answer.
HandlerKinds == {"list", "add", "remove", "get", "addrTxs", "userTxs",
                 "syncAddr", "syncUser", "syncBalances", "status"}

\* ---- GET /api/addresses ------------------------------------------------
ListStart(u) ==
    /\ Begin(Request("list", u, "", "", 0), "db")
    /\ UNCHANGED <<repo, tip>>

ListFinish(addresses, balances) ==
    Respond([status |-> 200, success |-> TRUE, data |-> FormatBalances(addresses, balances)])

ListDbReply ==
    /\ Handling("list", "db")
    /\ \E addresses \in getUserAddresses(req.user) :
        IF Len(addresses) = 0
        THEN /\ Respond([status |-> 200, success |-> TRUE, data |-> <<>>])
             /\ UNCHANGED <<rows, http>>
        ELSE /\ rows' = addresses
             /\ IF getMultipleBalancesLocal(Arg(AddressStrings(addresses)))
                THEN ListFinish(addresses, EmptyBalances) /\ UNCHANGED http
                ELSE /\ http' = http \cup {GetFor("balance", AddressStrings(addresses), 0)}
                     /\ pc' = "primary"
                     /\ UNCHANGED resp
    /\ UNCHANGED <<repo, tip, req, feed, conf>>

ListBalancesReply ==
    /\ Handling("list", "primary")
    /\ \E c \in Pending("balance"), balances \in BalanceAnswers(AddressStrings(rows)) :
        /\ http' = SettledBalances(c, balances)
        /\ ListFinish(rows, balances)
    /\ UNCHANGED <<repo, tip, req, rows, feed, conf>>

\* catch (apiError): balances stays {}
ListBalancesFail ==
    /\ Handling("list", "primary")
    /\ \E c \in Pending("balance") :
        /\ http' = Settled(c, "failed", 0)
        /\ ListFinish(rows, EmptyBalances)
    /\ UNCHANGED <<repo, tip, req, rows, feed, conf>>

\* ---- POST /api/addresses -----------------------------------------------
AddFinish(balances) ==
    Respond([status |-> 201, success |-> TRUE,
             data |-> [user_id |-> req.user, address |-> req.address, label |-> req.label,
                       balance |-> BalanceOf(balances, req.address)]])

\* A POST that goes to the table without looking at the address.
AddStartUnchecked(u, a, l) ==
    /\ Begin(Request("add", u, a, l, 0), "db")
    /\ UNCHANGED <<repo, tip>>

AddStart(u, a, l) ==
    /\ Idle
    /\ req' = Request("add", u, a, l, 0)
    /\ rows' = <<>>
    /\ feed' = NoFeed
    /\ conf' = <<>>
    /\ http' = {}
    /\ IF a = NoAddr \/ ~isValidBitcoinAddress(a)
       THEN Respond(Failure(400))
       ELSE pc' = "db" /\ resp' = NoResp
    /\ UNCHANGED <<repo, tip>>

AddDbReply ==
    /\ Handling("add", "db")
    /\ IF getAddressByUserAndAddress(req.user, req.address) # {}
       THEN Respond(Failure(409))
       ELSE pc' = "insert" /\ UNCHANGED resp
    /\ UNCHANGED <<repo, tip, req, rows, feed, conf, http>>

\* await db.addAddress(...): the promise rejects when the INSERT is
\* refused, and the outer catch answers 500.
AddInsertReply ==
    /\ Handling("add", "insert")
    /\ IF UniqueViolation(req.user, req.address)
       THEN Respond(Failure(500)) /\ UNCHANGED <<repo, http>>
       ELSE /\ repo' = addAddress(req.user, req.address, req.label)
            /\ IF getMultipleBalancesLocal(Arg(<<req.address>>))
               THEN AddFinish(EmptyBalances) /\ UNCHANGED http
               ELSE /\ http' = http \cup {GetFor("balance", <<req.address>>, 0)}
                    /\ pc' = "primary"
                    /\ UNCHANGED resp
    /\ UNCHANGED <<tip, req, rows, feed, conf>>

AddBalancesReply ==
    /\ Handling("add", "primary")
    /\ \E c \in Pending("balance"), balances \in BalanceAnswers(<<req.address>>) :
        /\ http' = SettledBalances(c, balances)
        /\ AddFinish(balances)
    /\ UNCHANGED <<repo, tip, req, rows, feed, conf>>

\* catch (apiError): addressRecord.balance = null
AddBalancesFail ==
    /\ Handling("add", "primary")
    /\ \E c \in Pending("balance") :
        /\ http' = Settled(c, "failed", 0)
        /\ AddFinish(EmptyBalances)
    /\ UNCHANGED <<repo, tip, req, rows, feed, conf>>

\* ---- DELETE /api/addresses/:address ------------------------------------
RemoveStart(u, a) ==
    /\ Begin(Request("remove", u, a, "", 0), "delete")
    /\ UNCHANGED <<repo, tip>>

\* A DELETE that answers success whatever result.deleted says.
RemoveDbReplyUnconditional ==
    /\ Handling("remove", "delete")
    /\ repo' = removeAddress(req.user, req.address)
    /\ Respond([status |-> 200, success |-> TRUE])
    /\ UNCHANGED <<tip, req, rows, feed, conf, http>>

RemoveDbReply ==
    /\ Handling("remove", "delete")
    /\ repo' = removeAddress(req.user, req.address)
    /\ IF getAddressByUserAndAddress(req.user, req.address) = {}
       THEN Respond(Failure(404))
       ELSE Respond([status |-> 200, success |-> TRUE])
    /\ UNCHANGED <<tip, req, rows, feed, conf, http>>

\* ---- GET /api/addresses/:address ---------------------------------------
GetFinish(balances) ==
    Respond([status |-> 200, success |-> TRUE,
             data |-> [user_id |-> req.user, address |-> req.address,
                       balance |-> BalanceOf(balances, req.address)]])

GetStart(u, a) ==
    /\ Begin(Request("get", u, a, "", 0), "db")
    /\ UNCHANGED <<repo, tip>>

\* A read that asks the explorer without looking the address up.
GetDbReplyNoLookup ==
    /\ Handling("get", "db")
    /\ http' = http \cup {GetFor("balance", <<req.address>>, 0)}
    /\ pc' = "primary"
    /\ UNCHANGED <<repo, tip, req, rows, feed, conf, resp>>

GetDbReply ==
    /\ Handling("get", "db")
    /\ IF getAddressByUserAndAddress(req.user, req.address) = {}
       THEN Respond(Failure(404)) /\ UNCHANGED http
       ELSE IF getMultipleBalancesLocal(Arg(<<req.address>>))
            THEN GetFinish(EmptyBalances) /\ UNCHANGED http
            ELSE /\ http' = http \cup {GetFor("balance", <<req.address>>, 0)}
                 /\ pc' = "primary"
                 /\ UNCHANGED resp
    /\ UNCHANGED <<repo, tip, req, rows, feed, conf>>

\* A read that keeps the balance it fetched in the row of the address.
GetBalancesReplyStoring ==
    /\ Handling("get", "primary")
    /\ \E c \in Pending("balance"), balances \in BalanceAnswers(<<req.address>>) :
        /\ http' = SettledBalances(c, balances)
        /\ GetFinish(balances)
        /\ repo' = removeAddress(req.user, req.address) \cup
                    {[user_id |-> req.user, address |-> req.address, label |-> "",
                      balance |-> BalanceOf(balances, req.address)]}
    /\ UNCHANGED <<tip, req, rows, feed, conf>>

GetBalancesReply ==
    /\ Handling("get", "primary")
    /\ \E c \in Pending("balance"), balances \in BalanceAnswers(<<req.address>>) :
        /\ http' = SettledBalances(c, balances)
        /\ GetFinish(balances)
    /\ UNCHANGED <<repo, tip, req, rows, feed, conf>>

\* catch (apiError): balance stays null
GetBalancesFail ==
    /\ Handling("get", "primary")
    /\ \E c \in Pending("balance") :
        /\ http' = Settled(c, "failed", 0)
        /\ GetFinish(EmptyBalances)
    /\ UNCHANGED <<repo, tip, req, rows, feed, conf>>

(***************************************************************************)
(* The transaction lists of routes/wallets.js: every transaction is        *)
(* formatted by an async callback under Promise.all, so the callbacks all  *)
(* run up to their first await when the explorer's answer arrives.         *)
(***************************************************************************)
Zeros(n) == [i \in 1..n |-> 0]

TransactionsResponse(txs, cs) ==
    [status |-> 200, success |-> TRUE, transactions |-> FormatWithConfirmations(txs, cs)]

\* The primary query has answered the transactions f; sent is what the
\* request has sent to the explorer so far.
StartConfirmations(sent, f) ==
    IF ~f.present
    THEN /\ http' = sent
         /\ Respond([status |-> 200, success |-> TRUE, transactions |-> <<>>])
         /\ UNCHANGED <<feed, conf>>
    ELSE LET need == {i \in 1..Len(f.txs) : NeedsConfirmations(f.txs[i])} IN
         /\ feed' = f
         /\ conf' = Zeros(Len(f.txs))
         /\ http' = sent \cup {Get("latestblock", i, 0) : i \in need}
         /\ IF need = {}
            THEN Respond(TransactionsResponse(f.txs, Zeros(Len(f.txs))))
            ELSE pc' = "tips" /\ UNCHANGED resp

\* The getLatestBlock call made for transaction i has ended as latest.
ConfirmationSettles(kind, i, latest) ==
    /\ Handling(kind, "tips")
    /\ \E c \in Pending("latestblock") :
        /\ c.tx = i
        /\ LET r == calculateConfirmations(latest, feed.txs[i].block_height)
               sent == Settled(c, IF latest.ok THEN "ok" ELSE "failed", latest.height)
               cs == [conf EXCEPT ![i] = r.value]
           IN  /\ http' = sent
               /\ IF r.threw
                  THEN Respond(Failure(500)) /\ UNCHANGED conf
                  ELSE /\ conf' = cs
                       /\ IF \E d \in sent : d.state = "pending"
                          THEN UNCHANGED <<pc, resp>>
                          ELSE Respond(TransactionsResponse(feed.txs, cs))
    /\ UNCHANGED <<repo, tip, req, rows, feed>>

LatestOk == [ok |-> TRUE, height |-> tip]
LatestFailed == [ok |-> FALSE, height |-> 0]

\* ---- GET /api/addresses/:address/transactions --------------------------
AddrTxsStart(u, a, l) ==
    /\ Begin(Request("addrTxs", u, a, "", l), "db")
    /\ UNCHANGED <<repo, tip>>

AddrTxsDbReply ==
    /\ Handling("addrTxs", "db")
    /\ IF getAddressByUserAndAddress(req.user, req.address) = {}
       THEN Respond(Failure(404)) /\ UNCHANGED http
       ELSE /\ http' = http \cup
                    {GetFor("rawaddr", <<req.address>>, getAddressInfoLimit(req.limit))}
            /\ pc' = "primary"
            /\ UNCHANGED resp
    /\ UNCHANGED <<repo, tip, req, rows, feed, conf>>

AddrTxsInfoReply ==
    /\ Handling("addrTxs", "primary")
    /\ \E c \in Pending("rawaddr"), f \in Feeds :
        StartConfirmations(Settled(c, "ok", 0), f)
    /\ UNCHANGED <<repo, tip, req, rows>>

AddrTxsInfoFail ==
    /\ Handling("addrTxs", "primary")
    /\ \E c \in Pending("rawaddr") : http' = Settled(c, "failed", 0)
    /\ Respond(Failure(500))
    /\ UNCHANGED <<repo, tip, req, rows, feed, conf>>

AddrTxsTipReply(i) == ConfirmationSettles("addrTxs", i, LatestOk)
AddrTxsTipFail(i) == ConfirmationSettles("addrTxs", i, LatestFailed)

\* ---- GET /api/addresses/user/transactions ------------------------------
UserTxsStart(u, l) ==
    /\ Begin(Request("userTxs", u, "", "", l), "db")
    /\ UNCHANGED <<repo, tip>>

UserTxsDbReply ==
    /\ Handling("userTxs", "db")
    /\ \E addresses \in getUserAddresses(req.user) :
        IF Len(addresses) = 0
        THEN /\ Respond([status |-> 200, success |-> TRUE, transactions |-> <<>>])
             /\ UNCHANGED <<rows, http, feed, conf>>
        ELSE /\ rows' = addresses
             /\ IF getMultipleAddressInfoLocal(Arg(AddressStrings(addresses)))
                THEN StartConfirmations(http, EmptyMultiInfo)
                ELSE /\ http' = http \cup
                            {GetFor("multiaddr", AddressStrings(addresses),
                                    getMultipleAddressInfoLimit(req.limit))}
                     /\ pc' = "primary"
                     /\ UNCHANGED <<resp, feed, conf>>
    /\ UNCHANGED <<repo, tip, req>>

UserTxsInfoReply ==
    /\ Handling("userTxs", "primary")
    /\ \E c \in Pending("multiaddr"), f \in Feeds :
        StartConfirmations(Settled(c, "ok", 0), f)
    /\ UNCHANGED <<repo, tip, req, rows>>

UserTxsInfoFail ==
    /\ Handling("userTxs", "primary")
    /\ \E c \in Pending("multiaddr") : http' = Settled(c, "failed", 0)
    /\ Respond(Failure(500))
    /\ UNCHANGED <<repo, tip, req, rows, feed, conf>>

UserTxsTipReply(i) == ConfirmationSettles("userTxs", i, LatestOk)
UserTxsTipFail(i) == ConfirmationSettles("userTxs", i, LatestFailed)

(***************************************************************************)
(* routes/sync.js                                                          *)
(***************************************************************************)
\* ---- GET /api/sync/address/:address ------------------------------------
SyncAddrStart(u, a, l) ==
    /\ Begin(Request("syncAddr", u, a, "", l), "db")
    /\ UNCHANGED <<repo, tip>>

SyncAddrDbReply ==
    /\ Handling("syncAddr", "db")
    /\ IF getAddressByUserAndAddress(req.user, req.address) = {}
       THEN Respond(Failure(404)) /\ UNCHANGED http
       ELSE /\ http' = http \cup
                    {GetFor("rawaddr", <<req.address>>, getAddressInfoLimit(req.limit))}
            /\ pc' = "primary"
            /\ UNCHANGED resp
    /\ UNCHANGED <<repo, tip, req, rows, feed, conf>>

SyncAddrInfoReply ==
    /\ Handling("syncAddr", "primary")
    /\ \E c \in Pending("rawaddr"), b \in Snapshots, f \in Feeds :
        /\ http' = SettledBalances(c, {[address |-> req.address, data |-> b]})
        /\ feed' = f
        /\ Respond([status |-> 200, success |-> TRUE,
                    balance |-> ConvertBalance(b),
                    transactions |-> IF f.present THEN FormatPlain(f.txs) ELSE <<>>])
    /\ UNCHANGED <<repo, tip, req, rows, conf>>

SyncAddrInfoFail ==
    /\ Handling("syncAddr", "primary")
    /\ \E c \in Pending("rawaddr") : http' = Settled(c, "failed", 0)
    /\ Respond(Failure(500))
    /\ UNCHANGED <<repo, tip, req, rows, feed, conf>>

\* ---- GET /api/sync/user ------------------------------------------------
SyncUserStart(u, l) ==
    /\ Begin(Request("syncUser", u, "", "", l), "db")
    /\ UNCHANGED <<repo, tip>>

SyncUserFinish(addresses, f, balances) ==
    Respond([status |-> 200, success |-> TRUE,
             addresses |-> FormatBalances(addresses, balances),
             transactions |-> IF f.present THEN FormatPlain(Slice(f.txs, req.limit)) ELSE <<>>])

\* multiAddressInfo is there: await getMultipleBalances(addressStrings)
SyncUserBalances(sent, addresses, f) ==
    /\ feed' = f
    /\ IF getMultipleBalancesLocal(Arg(AddressStrings(addresses)))
       THEN http' = sent /\ SyncUserFinish(addresses, f, EmptyBalances)
       ELSE /\ http' = sent \cup {GetFor("balance", AddressStrings(addresses), 0)}
            /\ pc' = "balances"
            /\ UNCHANGED resp

SyncUserDbReply ==
    /\ Handling("syncUser", "db")
    /\ \E addresses \in getUserAddresses(req.user) :
        IF Len(addresses) = 0
        THEN /\ Respond([status |-> 200, success |-> TRUE,
                         addresses |-> <<>>, transactions |-> <<>>])
             /\ UNCHANGED <<rows, http, feed>>
        ELSE /\ rows' = addresses
             /\ IF getMultipleAddressInfoLocal(Arg(AddressStrings(addresses)))
                THEN SyncUserBalances(http, addresses, EmptyMultiInfo)
                ELSE /\ http' = http \cup
                            {GetFor("multiaddr", AddressStrings(addresses),
                                    getMultipleAddressInfoLimit(req.limit))}
                     /\ pc' = "primary"
                     /\ UNCHANGED <<resp, feed>>
    /\ UNCHANGED <<repo, tip, req, conf>>

SyncUserInfoReply ==
    /\ Handling("syncUser", "primary")
    /\ \E c \in Pending("multiaddr"), f \in Feeds :
        SyncUserBalances(Settled(c, "ok", 0), rows, f)
    /\ UNCHANGED <<repo, tip, req, rows, conf>>

SyncUserInfoFail ==
    /\ Handling("syncUser", "primary")
    /\ \E c \in Pending("multiaddr") : http' = Settled(c, "failed", 0)
    /\ Respond(Failure(500))
    /\ UNCHANGED <<repo, tip, req, rows, feed, conf>>

SyncUserBalancesReply ==
    /\ Handling("syncUser", "balances")
    /\ \E c \in Pending("balance"), balances \in BalanceAnswers(AddressStrings(rows)) :
        /\ http' = SettledBalances(c, balances)
        /\ SyncUserFinish(rows, feed, balances)
    /\ UNCHANGED <<repo, tip, req, rows, feed, conf>>

SyncUserBalancesFail ==
    /\ Handling("syncUser", "balances")
    /\ \E c \in Pending("balance") : http' = Settled(c, "failed", 0)
    /\ Respond(Failure(500))
    /\ UNCHANGED <<repo, tip, req, rows, feed, conf>>

\* ---- GET /api/sync/user/balances ---------------------------------------
SyncBalancesStart(u) ==
    /\ Begin(Request("syncBalances", u, "", "", 0), "db")
    /\ UNCHANGED <<repo, tip>>

SyncBalancesFinish(addresses, balances) ==
    Respond([status |-> 200, success |-> TRUE,
             total_addresses |-> Len(addresses),
             balances |-> FormatBalances(addresses, balances)])

SyncBalancesDbReply ==
    /\ Handling("syncBalances", "db")
    /\ \E addresses \in getUserAddresses(req.user) :
        IF Len(addresses) = 0
        THEN /\ Respond([status |-> 200, success |-> TRUE,
                         total_addresses |-> 0, balances |-> <<>>])
             /\ UNCHANGED <<rows, http>>
        ELSE /\ rows' = addresses
             /\ IF getMultipleBalancesLocal(Arg(AddressStrings(addresses)))
                THEN SyncBalancesFinish(addresses, EmptyBalances) /\ UNCHANGED http
                ELSE /\ http' = http \cup {GetFor("balance", AddressStrings(addresses), 0)}
                     /\ pc' = "primary"
                     /\ UNCHANGED resp
    /\ UNCHANGED <<repo, tip, req, feed, conf>>

SyncBalancesReply ==
    /\ Handling("syncBalances", "primary")
    /\ \E c \in Pending("balance"), balances \in BalanceAnswers(AddressStrings(rows)) :
        /\ http' = SettledBalances(c, balances)
        /\ SyncBalancesFinish(rows, balances)
    /\ UNCHANGED <<repo, tip, req, rows, feed, conf>>

\* A handler that answers null balances when /balance fails.
SyncBalancesFailSwallowed ==
    /\ Handling("syncBalances", "primary")
    /\ \E c \in Pending("balance") : http' = Settled(c, "failed", 0)
    /\ SyncBalancesFinish(rows, EmptyBalances)
    /\ UNCHANGED <<repo, tip, req, rows, feed, conf>>

SyncBalancesFail ==
    /\ Handling("syncBalances", "primary")
    /\ \E c \in Pending("balance") : http' = Settled(c, "failed", 0)
    /\ Respond(Failure(500))
    /\ UNCHANGED <<repo, tip, req, rows, feed, conf>>

\* ---- GET /api/sync/status ----------------------------------------------
StatusStart ==
    /\ Idle
    /\ req' = Request("status", "", "", "", 0)
    /\ pc' = "primary"
    /\ http' = {Get("latestblock", 0, 0)}
    /\ resp' = NoResp
    /\ rows' = <<>>
    /\ feed' = NoFeed
    /\ conf' = <<>>
    /\ UNCHANGED <<repo, tip>>

StatusReply ==
    /\ Handling("status", "primary")
    /\ \E c \in Pending("latestblock") : http' = Settled(c, "ok", tip)
    /\ Respond([status |-> 200, success |-> TRUE, height |-> tip])
    /\ UNCHANGED <<repo, tip, req, rows, feed, conf>>

StatusFail ==
    /\ Handling("status", "primary")
    /\ \E c \in Pending("latestblock") : http' = Settled(c, "failed", 0)
    /\ Respond(Failure(500))
    /\ UNCHANGED <<repo, tip, req, rows, feed, conf>>

(***************************************************************************)
(* The requests of a run.                                                  *)
(***************************************************************************)
Next ==
    \/ TipAdvance
    \/ RequestEnds
    \/ DbFail
    \/ Idle /\ \E u \in Users : ListStart(u)
    \/ ListDbReply
    \/ ListBalancesReply
    \/ ListBalancesFail
    \/ Idle /\ \E u \in Users, a \in ValidAddrs \cup BadAddrs \cup {NoAddr}, l \in Labels :
            AddStart(u, a, l)
    \/ AddDbReply
    \/ AddInsertReply
    \/ AddBalancesReply
    \/ AddBalancesFail
    \/ Idle /\ \E u \in Users, a \in ValidAddrs \cup BadAddrs : RemoveStart(u, a)
    \/ RemoveDbReply
    \/ Idle /\ \E u \in Users, a \in ValidAddrs \cup BadAddrs : GetStart(u, a)
    \/ GetDbReply
    \/ GetBalancesReply
    \/ GetBalancesFail
    \/ Idle /\ \E u \in Users, a \in ValidAddrs \cup BadAddrs, l \in Limits : AddrTxsStart(u, a, l)
    \/ AddrTxsDbReply
    \/ AddrTxsInfoReply
    \/ AddrTxsInfoFail
    \/ \E i \in 1..MaxTxs : AddrTxsTipReply(i)
    \/ \E i \in 1..MaxTxs : AddrTxsTipFail(i)
    \/ Idle /\ \E u \in Users, l \in Limits : UserTxsStart(u, l)
    \/ UserTxsDbReply
    \/ UserTxsInfoReply
    \/ UserTxsInfoFail
    \/ \E i \in 1..MaxTxs : UserTxsTipReply(i)
    \/ \E i \in 1..MaxTxs : UserTxsTipFail(i)
    \/ Idle /\ \E u \in Users, a \in ValidAddrs \cup BadAddrs, l \in Limits : SyncAddrStart(u, a, l)
    \/ SyncAddrDbReply
    \/ SyncAddrInfoReply
    \/ SyncAddrInfoFail
    \/ Idle /\ \E u \in Users, l \in Limits : SyncUserStart(u, l)
    \/ SyncUserDbReply
    \/ SyncUserInfoReply
    \/ SyncUserInfoFail
    \/ SyncUserBalancesReply
    \/ SyncUserBalancesFail
    \/ Idle /\ \E u \in Users : SyncBalancesStart(u)
    \/ SyncBalancesDbReply
    \/ SyncBalancesReply
    \/ SyncBalancesFail
    \/ StatusStart
    \/ StatusReply
    \/ StatusFail

Spec == Init /\ [][Next]_vars

(***************************************************************************)
(* POST and DELETE among other requests.  The handlers of other requests   *)
(* run while this one is suspended; they touch this request only through   *)
(* the table, one statement at a time: the INSERT of another POST (whose   *)
(* address passed validation, whose own lookup may be long past) and the   *)
(* DELETE of another DELETE.                                               *)
(***************************************************************************)
OtherLabels == {"Savings"}

Suspended == pc \notin {"idle", "done"}

ConcurrentInsert(u, a, l) ==
    /\ Suspended
    /\ ~UniqueViolation(u, a)
    /\ repo' = addAddress(u, a, l)
    /\ UNCHANGED <<tip, pc, req, rows, feed, conf, http, resp>>

ConcurrentDelete(u, a) ==
    /\ Suspended
    /\ getAddressByUserAndAddress(u, a) # {}
    /\ repo' = removeAddress(u, a)
    /\ UNCHANGED <<tip, pc, req, rows, feed, conf, http, resp>>

NextWrites ==
    \/ RequestEnds
    \/ Idle /\ \E u \in Users, a \in ValidAddrs \cup BadAddrs \cup {NoAddr}, l \in Labels :
            AddStart(u, a, l)
    \/ AddDbReply
    \/ AddInsertReply
    \/ AddBalancesReply
    \/ AddBalancesFail
    \/ Idle /\ \E u \in Users, a \in ValidAddrs \cup BadAddrs : RemoveStart(u, a)
    \/ RemoveDbReply
    \/ \E u \in Users, a \in ValidAddrs, l \in Labels \cup OtherLabels : ConcurrentInsert(u, a, l)
    \/ \E u \in Users, a \in ValidAddrs : ConcurrentDelete(u, a)
    \/ DbFail

SpecWrites == Init /\ [][NextWrites]_vars

(***************************************************************************)
(* The explorer client called on its own: any caller, any arguments.       *)
(* req is the call, resp how it ended.                                     *)
(***************************************************************************)
Returned(value) == [outcome |-> "returned", value |-> value]
Threw == [outcome |-> "threw"]

\* throw new Error(`${prefix}: ${error.message}`)
Thrown(prefix, message) == [outcome |-> "threw", prefix |-> prefix, message |-> message]

\* The call starts with the GETs sent, or ends at once with the result now.
Invoke(call, sent, at, now) ==
    /\ Idle
    /\ req' = call
    /\ http' = sent
    /\ pc' = at
    /\ resp' = now
    /\ rows' = <<>>
    /\ feed' = NoFeed
    /\ conf' = <<>>
    /\ UNCHANGED <<repo, tip>>

ClientArgs == {NoArg} \cup {Arg(l) : l \in SeqsUpTo(ValidAddrs, 2)}

\* ---- getMultipleBalances(addresses) ------------------------------------
CallGetMultipleBalances(addresses) ==
    IF getMultipleBalancesLocal(addresses)
    THEN Invoke([kind |-> "getMultipleBalances", addresses |-> addresses],
                {}, "done", Returned(EmptyBalances))
    ELSE Invoke([kind |-> "getMultipleBalances", addresses |-> addresses],
                {GetFor("balance", addresses.list, 0)}, "primary", NoResp)

GetMultipleBalancesReturns ==
    /\ Handling("getMultipleBalances", "primary")
    /\ \E c \in Pending("balance"), balances \in BalanceAnswers(req.addresses.list) :
        /\ http' = SettledBalances(c, balances)
        /\ Respond(Returned(balances))
    /\ UNCHANGED <<repo, tip, req, rows, feed, conf>>

GetMultipleBalancesThrows ==
    /\ Handling("getMultipleBalances", "primary")
    /\ \E c \in Pending("balance"), message \in UpstreamErrors :
        /\ http' = Rejected(c, message)
        /\ Respond(Thrown("Failed to fetch balances", message))
    /\ UNCHANGED <<repo, tip, req, rows, feed, conf>>

\* ---- getMultipleAddressInfo(addresses, limit) --------------------------
CallGetMultipleAddressInfo(addresses, limit) ==
    IF getMultipleAddressInfoLocal(addresses)
    THEN Invoke([kind |-> "getMultipleAddressInfo", addresses |-> addresses, limit |-> limit],
                {}, "done", Returned(EmptyMultiInfo))
    ELSE Invoke([kind |-> "getMultipleAddressInfo", addresses |-> addresses, limit |-> limit],
                {GetFor("multiaddr", addresses.list, getMultipleAddressInfoLimit(limit))},
                "primary", NoResp)

GetMultipleAddressInfoReturns ==
    /\ Handling("getMultipleAddressInfo", "primary")
    /\ \E c \in Pending("multiaddr"), f \in Feeds :
        /\ http' = Settled(c, "ok", 0)
        /\ Respond(Returned(f))
    /\ UNCHANGED <<repo, tip, req, rows, feed, conf>>

GetMultipleAddressInfoThrows ==
    /\ Handling("getMultipleAddressInfo", "primary")
    /\ \E c \in Pending("multiaddr"), message \in UpstreamErrors :
        /\ http' = Rejected(c, message)
        /\ Respond(Thrown("Failed to fetch multiple address information", message))
    /\ UNCHANGED <<repo, tip, req, rows, feed, conf>>

\* ---- getAddressInfo(address, limit) ------------------------------------
CallGetAddressInfo(address, limit) ==
    Invoke([kind |-> "getAddressInfo", address |-> address, limit |-> limit],
           {GetFor("rawaddr", <<address>>, getAddressInfoLimit(limit))}, "primary", NoResp)

GetAddressInfoReturns ==
    /\ Handling("getAddressInfo", "primary")
    /\ \E c \in Pending("rawaddr"), f \in Feeds :
        /\ http' = Settled(c, "ok", 0)
        /\ Respond(Returned(f))
    /\ UNCHANGED <<repo, tip, req, rows, feed, conf>>

GetAddressInfoThrows ==
    /\ Handling("getAddressInfo", "primary")
    /\ \E c \in Pending("rawaddr"), message \in UpstreamErrors :
        /\ http' = Rejected(c, message)
        /\ Respond(Thrown("Failed to fetch address information", message))
    /\ UNCHANGED <<repo, tip, req, rows, feed, conf>>

\* ---- getLatestBlock() --------------------------------------------------
CallGetLatestBlock ==
    Invoke([kind |-> "getLatestBlock"], {Get("latestblock", 0, 0)}, "primary", NoResp)

GetLatestBlockReturns ==
    /\ Handling("getLatestBlock", "primary")
    /\ \E c \in Pending("latestblock") : http' = Settled(c, "ok", tip)
    /\ Respond(Returned([height |-> tip]))
    /\ UNCHANGED <<repo, tip, req, rows, feed, conf>>

\* A getLatestBlock that sends its GET again when it is rejected.
GetLatestBlockRetries ==
    /\ Handling("getLatestBlock", "primary")
    /\ \E c \in Pending("latestblock"), message \in UpstreamErrors :
        http' = Rejected(c, message) \cup {Get("latestblock", 1, 0)}
    /\ UNCHANGED <<repo, tip, pc, req, rows, feed, conf, resp>>

GetLatestBlockThrows ==
    /\ Handling("getLatestBlock", "primary")
    /\ \E c \in Pending("latestblock"), message \in UpstreamErrors :
        /\ http' = Rejected(c, message)
        /\ Respond(Thrown("Failed to fetch latest block", message))
    /\ UNCHANGED <<repo, tip, req, rows, feed, conf>>

\* ---- calculateConfirmations(blockHeight) -------------------------------
CallCalculateConfirmations(blockHeight) ==
    Invoke([kind |-> "calculateConfirmations", blockHeight |-> blockHeight],
           {Get("latestblock", 1, 0)}, "tips", NoResp)

CalculateConfirmationsSettles(latest) ==
    /\ Handling("calculateConfirmations", "tips")
    /\ \E c \in Pending("latestblock") :
        http' = Settled(c, IF latest.ok THEN "ok" ELSE "failed", latest.height)
    /\ LET r == calculateConfirmations(latest, req.blockHeight) IN
       Respond(IF r.threw THEN Threw ELSE Returned(r.value))
    /\ UNCHANGED <<repo, tip, req, rows, feed, conf>>

CalculateConfirmationsTipReply == CalculateConfirmationsSettles(LatestOk)
CalculateConfirmationsTipFail == CalculateConfirmationsSettles(LatestFailed)

\* ---- processTransaction(tx, address) -----------------------------------
RECURSIVE SumOut(_, _)
SumOut(out, address) ==
    IF out = <<>> THEN 0
    ELSE (IF Head(out).addr = address THEN Head(out).value ELSE 0) + SumOut(Tail(out), address)

RECURSIVE SumIn(_, _)
SumIn(inputs, address) ==
    IF inputs = <<>> THEN 0
    ELSE (IF Head(inputs).prev_out # NoPrevOut /\ Head(inputs).prev_out.addr = address
          THEN Head(inputs).prev_out.value ELSE 0) + SumIn(Tail(inputs), address)

Abs(x) == IF x < 0 THEN 0 - x ELSE x

processTransaction(tx, address, confirmations) ==
    LET isIncoming == \E i \in 1..Len(tx.out) : tx.out[i].addr = address
        value == IF isIncoming THEN SumOut(tx.out, address) ELSE 0 - SumIn(tx.inputs, address)
    IN  [block_height |-> tx.block_height,
         value |-> Number(Abs(value)),
         fee |-> Number(tx.fee),
         confirmations |-> confirmations,
         is_incoming |-> isIncoming]

CallProcessTransaction(tx, address) ==
    IF NeedsConfirmations(tx)
    THEN Invoke([kind |-> "processTransaction", tx |-> tx, address |-> address],
                {Get("latestblock", 1, 0)}, "tips", NoResp)
    ELSE Invoke([kind |-> "processTransaction", tx |-> tx, address |-> address],
                {}, "done", Returned(processTransaction(tx, address, 0)))

ProcessTransactionSettles(latest) ==
    /\ Handling("processTransaction", "tips")
    /\ \E c \in Pending("latestblock") :
        http' = Settled(c, IF latest.ok THEN "ok" ELSE "failed", latest.height)
    /\ LET r == calculateConfirmations(latest, req.tx.block_height) IN
       Respond(IF r.threw THEN Threw
               ELSE Returned(processTransaction(req.tx, req.address, r.value)))
    /\ UNCHANGED <<repo, tip, req, rows, feed, conf>>

ProcessTransactionTipReply == ProcessTransactionSettles(LatestOk)
ProcessTransactionTipFail == ProcessTransactionSettles(LatestFailed)

\* The calls of the client and how they end.
ClientSteps ==
    \/ Idle /\ \E addresses \in ClientArgs : CallGetMultipleBalances(addresses)
    \/ GetMultipleBalancesReturns
    \/ GetMultipleBalancesThrows
    \/ Idle /\ \E addresses \in ClientArgs, l \in Limits : CallGetMultipleAddressInfo(addresses, l)
    \/ GetMultipleAddressInfoReturns
    \/ GetMultipleAddressInfoThrows
    \/ Idle /\ \E a \in ValidAddrs, l \in Limits : CallGetAddressInfo(a, l)
    \/ GetAddressInfoReturns
    \/ GetAddressInfoThrows
    \/ CallGetLatestBlock
    \/ GetLatestBlockReturns
    \/ GetLatestBlockThrows
    \/ Idle /\ \E h \in BlockHeights : CallCalculateConfirmations(h)
    \/ CalculateConfirmationsTipReply
    \/ CalculateConfirmationsTipFail
    \/ Idle /\ \E tx \in DetailedTxs, a \in ValidAddrs : CallProcessTransaction(tx, a)
    \/ ProcessTransactionTipReply
    \/ ProcessTransactionTipFail

NextClient ==
    \/ TipAdvance
    \/ RequestEnds
    \/ ClientSteps

SpecClient == Init /\ [][NextClient]_vars

\* The handlers and the client's operations together.
SpecAll == Init /\ [][Next \/ ClientSteps]_vars

(***************************************************************************)
(* The unit conversions called on their own.  The amounts are whole coins  *)
(* and parts of a coin around the values that matter: nothing, the supply  *)
(* of 21 million coins, 2^51, 2^52 and Number.MAX_SAFE_INTEGER (2^53 - 1). *)
(***************************************************************************)
Wholes == {0, 1, 20999999, 21000000, 22517998, 33555161, 45036406, 90071992}
Parts == {0, 1, 2, 5, 5000, 29000000, 13685248, 13685249, 84321854, 40332891, 54740991,
          99999999}

MaxSafeInteger == Wide(90071992, 54740991)

AtMost(a, b) == a.hi < b.hi \/ (a.hi = b.hi /\ a.lo <= b.lo)

Amounts == {a \in {Wide(w, p) : w \in Wholes, p \in Parts} : AtMost(a, MaxSafeInteger)}

\* The Numbers satoshisToBTC hands out.
Doubles == {Float64(satoshisToBTC(b)) : b \in Amounts}

CallSatoshisToBTC(satoshis) ==
    Invoke([kind |-> "satoshisToBTC", satoshis |-> satoshis],
           {}, "done", Returned(Float64(satoshisToBTC(satoshis))))

CallBtcToSatoshis(btc) ==
    Invoke([kind |-> "btcToSatoshis", btc |-> btc],
           {}, "done", Returned(btcToSatoshis(btc)))

\* btcToSatoshis(satoshisToBTC(b)): the caller hands the Number it was
\* given straight to btcToSatoshis.
BtcToSatoshisOfResult ==
    /\ Handling("satoshisToBTC", "done")
    /\ req' = [kind |-> "btcToSatoshis", btc |-> resp.value]
    /\ resp' = Returned(btcToSatoshis(resp.value))
    /\ UNCHANGED <<repo, tip, pc, rows, feed, conf, http>>

NextUnits ==
    \/ RequestEnds
    \/ Idle /\ \E b \in Amounts : CallSatoshisToBTC(b)
    \/ Idle /\ \E x \in Doubles : CallBtcToSatoshis(x)
    \/ BtcToSatoshisOfResult

SpecUnits == Init /\ [][NextUnits]_vars

(***************************************************************************)
(* Properties.                                                             *)
(***************************************************************************)
TxKinds == {"addrTxs", "userTxs"}

\* The transaction list of the request has been sent with success.
TxListSent == pc = "done" /\ req.kind \in TxKinds /\ resp.status = 200

TipGets == Sent("latestblock")
TipsFetched == {c.height : c \in {d \in TipGets : d.state = "ok"}}

\* C1: handling one request whose response carries confirmations sends at
\* most one /latestblock GET in total, however many transactions it lists.
C1_OneTipFetchPerResponse ==
    req.kind \in TxKinds => Cardinality(TipGets) <= 1

\* C2: a multi-address view of a non-empty address set never has more than
\* one /multiaddr GET or more than one /latestblock GET out, and when it
\* responds with a feed that holds a transaction in a block (at a height
\* H >= 1) it has sent exactly one of each.
C2_MultiViewOneCallEach ==
    (req.kind \in {"userTxs", "syncUser"} /\ Len(rows) > 0) =>
        /\ Cardinality(Sent("multiaddr")) <= 1
        /\ Cardinality(TipGets) <= 1
        /\ (/\ pc = "done"
            /\ resp.status = 200
            /\ \E i \in 1..Len(feed.txs) : Truthy(feed.txs[i].block_height))
              => Cardinality(Sent("multiaddr")) = 1 /\ Cardinality(TipGets) = 1

\* C3: in a transaction list no confirmations are negative, and when the
\* request fetched the tip height T (every fetch answered T, none failed)
\* every transaction at a known height H, H >= 0, reports T - H + 1 if
\* T >= H and 0 if T < H.
C3_ConfirmationsFromTip ==
    TxListSent =>
        \A i \in 1..Len(resp.transactions) :
            LET H == resp.transactions[i].block_height
                n == resp.transactions[i].confirmations
            IN  /\ n >= 0
                /\ (/\ H # NoHeight
                    /\ Cardinality(TipsFetched) = 1
                    /\ \A c \in TipGets : c.state = "ok")
                      => \A T \in TipsFetched : n = IF T >= H THEN T - H + 1 ELSE 0

\* C4: one tip serves the whole response: either the fetch failed and every
\* transaction reports 0, or there is one height T with max(0, T - H + 1)
\* reported by every transaction in a block (heights H >= 1 here; height 0
\* is C3's matter).
C4_OneTipForAll ==
    TxListSent =>
        LET inBlock == {i \in 1..Len(resp.transactions) :
                            Truthy(resp.transactions[i].block_height)}
        IN  \/ \A i \in inBlock : resp.transactions[i].confirmations = 0
            \/ \E T \in Heights : \A i \in inBlock :
                  resp.transactions[i].confirmations =
                      Max(0, T - resp.transactions[i].block_height + 1)

\* C5: a transaction whose block_height is null reports 0 confirmations and
\* no GET is ever sent to compute them, in the transaction lists and in
\* processTransaction.
C5_UnconfirmedIsZeroWithoutCall ==
    /\ req.kind \in TxKinds =>
          \A i \in 1..Len(feed.txs) :
              feed.txs[i].block_height = NoHeight =>
                  /\ conf[i] = 0
                  /\ ~\E c \in http : c.endpoint = "latestblock" /\ c.tx = i
    /\ TxListSent =>
          \A i \in 1..Len(resp.transactions) :
              resp.transactions[i].block_height = NoHeight =>
                  resp.transactions[i].confirmations = 0
    /\ (req.kind = "processTransaction" /\ req.tx.block_height = NoHeight) =>
          /\ http = {}
          /\ pc = "done"
          /\ resp.outcome = "returned"
          /\ resp.value.confirmations = 0

\* C5 happens: a list sent with an unconfirmed transaction at 0 next to a
\* transaction for which the tip was fetched.
C5_Witness ==
    /\ TxListSent
    /\ \E i \in 1..Len(resp.transactions) :
          /\ resp.transactions[i].block_height = NoHeight
          /\ resp.transactions[i].confirmations = 0
    /\ \E c \in TipGets : c.state = "ok" /\ resp.transactions[c.tx].confirmations > 0

\* C6: a failed /latestblock GET is caught: its transaction reports 0 and
\* the list is sent with success all the same; calculateConfirmations and
\* processTransaction return (0 confirmations) instead of throwing.
C6_TipFailureDegrades ==
    /\ (/\ pc = "done"
        /\ req.kind \in TxKinds
        /\ \E c \in http : c.tx = 0 /\ c.state = "ok")
          => /\ resp.status = 200
             /\ \A c \in TipGets :
                   c.state = "failed" => resp.transactions[c.tx].confirmations = 0
    /\ (/\ pc = "done"
        /\ req.kind = "calculateConfirmations"
        /\ \E c \in TipGets : c.state = "failed")
          => resp = Returned(0)
    /\ (/\ pc = "done"
        /\ req.kind = "processTransaction"
        /\ \E c \in TipGets : c.state = "failed")
          => resp.outcome = "returned" /\ resp.value.confirmations = 0

\* C6 happens: a list sent with one fetch failed and another answered.
C6_Witness ==
    /\ TxListSent
    /\ \E c \in TipGets : c.state = "failed" /\ resp.transactions[c.tx].confirmations = 0
    /\ \E c \in TipGets : c.state = "ok" /\ resp.transactions[c.tx].confirmations > 0

PrimaryEndpoints == {"rawaddr", "multiaddr", "balance"}
PrimaryFailed == \E c \in http : c.endpoint \in PrimaryEndpoints /\ c.state = "failed"

\* C7 as stated: whenever a primary GET has failed, the operation ends with
\* an error (500 from a handler, an exception from the client).
C7_PrimaryFailureAlwaysPropagates ==
    (pc = "done" /\ PrimaryFailed) =>
        IF req.kind \in HandlerKinds THEN resp = Failure(500) ELSE resp.outcome = "threw"

\* C7, amended: a failed /rawaddr or /multiaddr GET, and a failed /balance
\* GET in the client and in the sync handlers, ends the operation with an
\* error; in the address handlers of routes/wallets.js (list, add, get) a
\* failed /balance GET is caught and the response succeeds with null
\* balances.
C7_PrimaryFailurePropagatesButForAddressBalances ==
    (pc = "done" /\ PrimaryFailed) =>
        CASE req.kind = "list" ->
                /\ resp.status = 200
                /\ Len(resp.data) = Len(rows)
                /\ \A i \in 1..Len(resp.data) : resp.data[i].balance = NullBalance
          [] req.kind = "add" -> resp.status = 201 /\ resp.data.balance = NullBalance
          [] req.kind = "get" -> resp.status = 200 /\ resp.data.balance = NullBalance
          [] req.kind \in {"addrTxs", "userTxs", "syncAddr", "syncUser", "syncBalances"} ->
                resp = Failure(500)
          [] OTHER -> resp.outcome = "threw"

\* C7 happens: the balances-only view has answered 500 to a failed /balance.
C7_Witness ==
    /\ pc = "done"
    /\ req.kind = "syncBalances"
    /\ \E c \in Sent("balance") : c.state = "failed"
    /\ resp = Failure(500)

\* C8 as stated: getMultipleAddressInfo of no addresses throws, and sends
\* nothing.
C8_EmptyListIsRejected ==
    (pc = "done" /\ req.kind = "getMultipleAddressInfo" /\ IsEmptyArg(req.addresses)) =>
        resp.outcome = "threw" /\ http = {}

\* C8, amended: getMultipleAddressInfo of no addresses returns the empty
\* result { addresses: [], txs: [] } at once, and sends nothing.
C8_EmptyListIsAnsweredLocally ==
    (req.kind = "getMultipleAddressInfo" /\ IsEmptyArg(req.addresses)) =>
        /\ pc = "done"
        /\ resp = Returned(EmptyMultiInfo)
        /\ http = {}

\* C8 happens: getMultipleAddressInfo([]) has returned.
C8_Witness ==
    /\ pc = "done"
    /\ req.kind = "getMultipleAddressInfo"
    /\ req.addresses = Arg(<<>>)
    /\ resp.outcome = "returned"

\* C9: getMultipleBalances of no addresses returns the empty mapping at
\* once, and sends nothing.
C9_EmptyListGivesEmptyMapping ==
    (req.kind = "getMultipleBalances" /\ IsEmptyArg(req.addresses)) =>
        /\ pc = "done"
        /\ resp = Returned(EmptyBalances)
        /\ http = {}

\* C9 happens: getMultipleBalances([]) has returned.
C9_Witness ==
    /\ pc = "done"
    /\ req.kind = "getMultipleBalances"
    /\ req.addresses = Arg(<<>>)
    /\ resp.outcome = "returned"

\* C10: when /balance has answered, the balances view (and the address
\* list) has exactly one entry for every address of the user, with the
\* converted balance where the explorer answered one and null where it did
\* not, and the response is a success.
C10_OneEntryPerAddress ==
    (/\ pc = "done"
     /\ req.kind \in {"syncBalances", "list"}
     /\ \E c \in Sent("balance") : c.state = "ok") =>
        LET S == {r.address : r \in {x \in repo : x.user_id = req.user}}
            answer == (CHOOSE c \in Sent("balance") : TRUE).balances
        IN  /\ resp.status = 200
            /\ LET entries == IF req.kind = "list" THEN resp.data ELSE resp.balances IN
               /\ Len(entries) = Cardinality(S)
               /\ \A a \in S : \E i \in 1..Len(entries) : entries[i].address = a
               /\ \A i \in 1..Len(entries) :
                     entries[i].balance =
                         IF \E e \in answer : e.address = entries[i].address
                         THEN ConvertBalance(
                                (CHOOSE e \in answer : e.address = entries[i].address).data)
                         ELSE NullBalance

\* C10 happens: the balances view of two addresses, the explorer knowing one.
C10_Witness ==
    /\ pc = "done"
    /\ req.kind = "syncBalances"
    /\ resp.status = 200
    /\ Len(resp.balances) = 2
    /\ \E i, j \in 1..2 :
          /\ resp.balances[i].balance = NullBalance
          /\ resp.balances[j].balance # NullBalance

\* C11 as stated: a multi-address view asked for L transactions (L a
\* number) responds with at most L of them.
C11_MultiViewAtMostLimit ==
    (/\ pc = "done"
     /\ req.kind \in {"userTxs", "syncUser"}
     /\ resp.status = 200
     /\ req.limit # NaN) =>
        Len(resp.transactions) <= req.limit

\* C12 as stated: every /rawaddr GET carries a limit of at most 50 and every
\* /multiaddr GET one of at most 100, whatever limit the request asked for,
\* and no request is answered 400 for its limit.
C12_LimitClamped ==
    /\ \A c \in Sent("rawaddr") : c.limit # NaN /\ c.limit <= AddrLimitMax
    /\ \A c \in Sent("multiaddr") : c.limit # NaN /\ c.limit <= MultiLimitMax
    /\ req.kind \in {"addrTxs", "userTxs", "syncAddr", "syncUser"} => resp # Failure(400)

\* The outgoing number field is the amount of raw satoshis divided once by
\* 100000000 (0 is 0 in either unit).
Converted(field, raw) ==
    \/ field.den = SatoshisPerBTC /\ field.num = raw
    \/ field.den = 1 /\ field.num = 0 /\ raw = 0

BalanceConverted(balance, raw) ==
    /\ Converted(balance.final_balance, raw.final_balance)
    /\ Converted(balance.total_received, raw.total_received)
    /\ Converted(balance.total_sent, raw.total_sent)

TxConverted(shown, raw) ==
    /\ Converted(shown.fee, raw.fee)
    /\ Len(shown.inputs) = Len(raw.inputs)
    /\ \A k \in 1..Len(raw.inputs) :
          IF raw.inputs[k].prev_out = NoPrevOut
          THEN shown.inputs[k].prev_out = NoPrevOut
          ELSE /\ shown.inputs[k].prev_out # NoPrevOut
               /\ Converted(shown.inputs[k].prev_out.value, raw.inputs[k].prev_out.value)
    /\ Len(shown.out) = Len(raw.out)
    /\ \A k \in 1..Len(raw.out) : Converted(shown.out[k].value, raw.out[k].value)

\* The balance records the explorer has answered to this request.
BalancesAnswered == UNION {c.balances : c \in http}

\* The balance entries of a response, each with its address.
BalancesShown ==
    CASE req.kind = "list" -> Range(resp.data)
      [] req.kind = "syncBalances" -> Range(resp.balances)
      [] req.kind = "syncUser" -> Range(resp.addresses)
      [] req.kind \in {"add", "get"} -> {resp.data}
      [] req.kind = "syncAddr" -> {[address |-> req.address, balance |-> resp.balance]}
      [] OTHER -> {}

\* The satoshis processTransaction sums up for the address.
RawValue(tx, address) ==
    IF \E i \in 1..Len(tx.out) : tx.out[i].addr = address
    THEN SumOut(tx.out, address)
    ELSE SumIn(tx.inputs, address)

\* C13 as stated: every amount of a response (balance fields, fee, input and
\* output values) and the value and fee processTransaction returns is the
\* explorer's amount in satoshis converted to BTC exactly once.
C13_EveryAmountConvertedOnce ==
    /\ (pc = "done" /\ req.kind \in HandlerKinds /\ resp.status \in {200, 201}) =>
          /\ \A e \in BalancesShown :
                e.balance # NullBalance =>
                    \E a \in BalancesAnswered :
                        a.address = e.address /\ BalanceConverted(e.balance, a.data)
          /\ (req.kind \in {"addrTxs", "userTxs", "syncAddr", "syncUser"} /\ feed.present) =>
                LET raw == IF req.kind = "syncUser" THEN Slice(feed.txs, req.limit)
                           ELSE feed.txs
                IN  /\ Len(resp.transactions) = Len(raw)
                    /\ \A i \in 1..Len(raw) : TxConverted(resp.transactions[i], raw[i])
    /\ (pc = "done" /\ req.kind = "processTransaction" /\ resp.outcome = "returned") =>
          /\ Converted(resp.value.value, RawValue(req.tx, req.address))
          /\ Converted(resp.value.fee, req.tx.fee)

\* C14: a POST whose address is missing or fails isValidBitcoinAddress is
\* answered 400 in the step that starts it: no GET is sent to the explorer
\* and the addresses table is as it was, then and until the request ends.
C14_InvalidAddressRejectedFirst ==
    [][(req'.kind = "add" /\ (req'.address = NoAddr \/ ~isValidBitcoinAddress(req'.address)))
          => /\ pc' = "done"
             /\ resp' = Failure(400)
             /\ http' = {}
             /\ repo' = repo]_vars

\* C14 happens: a malformed address has been answered 400 while the table
\* holds a row.
C14_Witness ==
    /\ pc = "done"
    /\ req.kind = "add"
    /\ req.address \in BadAddrs
    /\ resp = Failure(400)
    /\ http = {}
    /\ repo # {}

\* The addresses the table holds for a user.
StoredFor(userId) == {r.address : r \in {x \in repo : x.user_id = userId}}

\* C15: every address a handler names in a GET to the explorer passed
\* isValidBitcoinAddress in this request (a POST) or is held by the table
\* for the requesting user, and every address the table holds passes
\* isValidBitcoinAddress.
C15_OnlyKnownAddressesReachClient ==
    /\ \A r \in repo : r.address # NoAddr /\ isValidBitcoinAddress(r.address)
    /\ req.kind \in HandlerKinds =>
          \A c \in http : \A a \in Range(c.active) :
              \/ req.kind = "add" /\ a = req.address /\ isValidBitcoinAddress(a)
              \/ a \in StoredFor(req.user)

\* C15 happens: a read has sent a GET for an address its user holds and
\* the other user does not.
C15_Witness ==
    /\ req.kind = "get"
    /\ \E c \in http : c.active = <<req.address>>
    /\ req.address \in StoredFor(req.user)
    /\ \E u \in Users : req.address \notin StoredFor(u)

FetchKinds == {"getAddressInfo", "getMultipleBalances", "getMultipleAddressInfo",
               "getLatestBlock"}

\* C16: a call of getAddressInfo, getMultipleBalances, getMultipleAddressInfo
\* or getLatestBlock sends at most one GET; when that GET is rejected the
\* call has ended, with an exception that carries the message of the
\* rejection, and when it is answered the call returns that answer (for
\* /balance and /latestblock, whose answer the GET records).
C16_OneGetNoRetry ==
    req.kind \in FetchKinds =>
        /\ Cardinality(http) <= 1
        /\ \A c \in http :
              /\ c.state = "failed" =>
                    /\ pc = "done"
                    /\ resp.outcome = "threw"
                    /\ resp.message = c.error
                    /\ c.error \in UpstreamErrors
              /\ c.state = "ok" =>
                    /\ pc = "done"
                    /\ resp.outcome = "returned"
                    /\ c.endpoint = "balance" => resp.value = c.balances
                    /\ c.endpoint = "latestblock" => resp.value.height = c.height
              /\ c.state = "pending" => pc = "primary"

\* C16 happens: getAddressInfo has thrown on a timeout, one GET sent.
C16_Witness ==
    /\ pc = "done"
    /\ req.kind = "getAddressInfo"
    /\ Cardinality(http) = 1
    /\ \E c \in http : c.state = "failed" /\ c.error = "timeout of 10000ms exceeded"
    /\ resp = Thrown("Failed to fetch address information", "timeout of 10000ms exceeded")

\* C17 as stated: a single-address view that answers 200 carries the
\* balance of the address, converted once, and for every transaction it
\* lists a confirmations count, which is max(0, T - H + 1) for a
\* transaction at a height H >= 1 when the request fetched the tip T.
C17_SingleViewBalanceAndConfirmations ==
    (pc = "done" /\ req.kind \in {"addrTxs", "syncAddr"} /\ resp.status = 200) =>
        /\ "balance" \in DOMAIN resp
        /\ \E a \in BalancesAnswered :
              a.address = req.address /\ BalanceConverted(resp.balance, a.data)
        /\ \A i \in 1..Len(resp.transactions) :
              /\ "confirmations" \in DOMAIN resp.transactions[i]
              /\ resp.transactions[i].confirmations >= 0
              /\ (/\ Truthy(resp.transactions[i].block_height)
                  /\ Cardinality(TipsFetched) = 1
                  /\ \A c \in TipGets : c.state = "ok")
                    => \A T \in TipsFetched :
                          resp.transactions[i].confirmations =
                              Max(0, T - resp.transactions[i].block_height + 1)

\* C18: whatever POSTs and DELETEs have run, one after the other or
\* interleaved, the table holds at most one row for a pair of user_id and
\* address.
C18_OneRowPerUserAndAddress ==
    \A r1, r2 \in repo :
        (r1.user_id = r2.user_id /\ r1.address = r2.address) => r1 = r2

\* C18 happens: a POST whose lookup found nothing has been answered 500,
\* the pair having been inserted with another label meanwhile, and the same
\* address is held by the other user as well.
C18_Witness ==
    /\ pc = "done"
    /\ req.kind = "add"
    /\ resp = Failure(500)
    /\ \E r \in repo :
          r.user_id = req.user /\ r.address = req.address /\ r.label # req.label
    /\ \E r \in repo : r.user_id # req.user /\ r.address = req.address

RowsOf(userId) == {r \in repo : r.user_id = userId}

\* What a request of req.user has read and answered is that user's own.
OwnDataOnly ==
    /\ \A i \in 1..Len(rows) : rows[i].user_id = req.user
    /\ \A c \in http : Range(c.active) \subseteq StoredFor(req.user)
    /\ (pc = "done" /\ resp.status \in {200, 201}) =>
          /\ \A e \in BalancesShown : e.address \in StoredFor(req.user)
          /\ req.kind \in {"add", "get"} => resp.data.user_id = req.user
          /\ req.kind \in {"get", "addrTxs", "syncAddr"} => req.address \in StoredFor(req.user)
          /\ req.kind = "remove" => req.address \notin StoredFor(req.user)
    /\ (pc = "done" /\ resp = Failure(404)) => req.address \notin StoredFor(req.user)
    /\ (pc = "done" /\ resp = Failure(409)) => req.address \in StoredFor(req.user)

ReadKinds == {"list", "get", "addrTxs", "userTxs", "syncAddr", "syncUser",
              "syncBalances", "status"}

\* C20: no step of a read request (address list, single address, the
\* transaction lists, the sync views, status) changes the addresses table,
\* whether the explorer answers or fails, and a row of the table never
\* holds anything but user_id, address and label.
C20_ReadsLeaveTheTableAlone ==
    [][/\ req'.kind \in ReadKinds => repo' = repo
       /\ \A r \in repo' : DOMAIN r = {"user_id", "address", "label"}]_vars

\* C20 happens: the sync view of an address has answered a balance and a
\* transaction, and the table holds its row.
C20_Witness ==
    /\ pc = "done"
    /\ req.kind = "syncAddr"
    /\ resp.status = 200
    /\ resp.balance.final_balance.num > 0
    /\ Len(resp.transactions) > 0
    /\ repo = {[user_id |-> req.user, address |-> req.address, label |-> "Genesis"]}

\* C22: a POST for a pair of user and address that the table already
\* holds, at its lookup or at its INSERT (another POST for the same pair
\* having inserted it in between), is answered 409 and leaves the table as
\* it is: of two concurrent POSTs for one pair one is answered 201 and the
\* other 409, never 500.
C22_DuplicateAddIsConflict ==
    [][((AddDbReply \/ AddInsertReply) /\ UniqueViolation(req.user, req.address)) =>
          /\ resp' = Failure(409)
          /\ repo' = repo]_vars

\* The rows a DELETE of req.user and req.address is about.
Target == {r \in repo : r.user_id = req.user /\ r.address = req.address}

\* C23: a DELETE for user U and address A that the table answers removes
\* the row of U and A and answers 200 when the row is there, answers 404
\* when it is not, leaves every other row as it is in both cases (and the
\* whole table when the statement fails), and sends nothing to the explorer
\* at any of its steps.
C23_RemoveExactlyTheRecord ==
    [][req'.kind = "remove" =>
          /\ http' = {}
          /\ pc = "idle" => repo' = repo
          /\ (pc = "delete" /\ pc' = "done") =>
                IF resp' = Failure(500)
                THEN repo' = repo
                ELSE /\ repo' = repo \ Target
                     /\ Cardinality(Target) <= 1
                     /\ resp'.status = IF Target = {} THEN 404 ELSE 200
                     /\ resp'.success = (Target # {})]_vars

\* C23 happens: a DELETE has removed its row and answered 200, and the
\* table still holds another address of the same user and the same address
\* of the other user.
C23_Witness ==
    /\ pc = "done"
    /\ req.kind = "remove"
    /\ resp.status = 200
    /\ Target = {}
    /\ \E r \in repo : r.user_id = req.user /\ r.address # req.address
    /\ \E r \in repo : r.user_id # req.user /\ r.address = req.address

\* A satoshisToBTC has returned and its caller passes the result to
\* btcToSatoshis in this step.
RoundTrip ==
    /\ Handling("satoshisToBTC", "done")
    /\ req'.kind = "btcToSatoshis"
    /\ req'.btc = resp.value

\* 2^51
RoundTripLimit == Wide(22517998, 13685248)

\* C21 as stated: for every non-negative integer amount b in satoshis,
\* btcToSatoshis(satoshisToBTC(b)) is b.
C21_RoundTripOfEveryAmount ==
    [][RoundTrip => resp'.value = req.satoshis]_vars

\* C21, amended: for every non-negative integer amount b in satoshis up to
\* 2^51 (the 2,100,000,000,000,000 satoshis of the whole supply are below
\* it), btcToSatoshis(satoshisToBTC(b)) is b.
C21_RoundTripUpToLimit ==
    [][(RoundTrip /\ AtMost(req.satoshis, RoundTripLimit)) => resp'.value = req.satoshis]_vars

\* C21 happens: btcToSatoshis has given back 20999999.00000005 coins in
\* satoshis, from the Number satoshisToBTC made of them, whose product
\* with 100000000 is below that integer until Math.round brings it back.
C21_Witness ==
    /\ pc = "done"
    /\ req.kind = "btcToSatoshis"
    /\ req.btc = Float64(satoshisToBTC(Wide(20999999, 5)))
    /\ resp.value = Wide(20999999, 5)
    /\ Unhex(MathFloor(Multiply(req.btc, SatoshisPerBTC))) # resp.value

====
